---------------------------- MODULE Spec2Model ----------------------------
(***************************************************************************)
(* Model of backend/app.py: the NAV computation, the SQLite stores, the    *)
(* sync orchestrator, the factor-regression driver and the response cache. *)
(*                                                                         *)
(* Representation                                                          *)
(*   - a date is the triple <<year, month, day>>; the TEXT form            *)
(*     "%Y-%m-%d" is fixed-width and zero-padded, so SQLite's text         *)
(*     comparison of two such strings is the lexicographic comparison of   *)
(*     the triples (DateLT);                                               *)
(*   - a ticker is the sequence of its characters, so that yahoo_ticker    *)
(*     can be computed character by character;                             *)
(*   - a float is an exact rational <<num, den>> (den > 0, lowest terms);  *)
(*     NaN in a price table is the value NaN below;                        *)
(*   - a stored NAV is the integer number of 1e-6 units (round(nav, 6)).   *)
(***************************************************************************)
EXTENDS Integers, Sequences, FiniteSets, TLC

VARIABLES
    navStore,       \* table portfolio_prices: set of rows <<date, portfolio_name, nav>>
    ff5Store,       \* table ff5_daily: set of rows <<date, factors>>
    regTable,       \* table ff5_regressions: set of rows <<portfolio_name, result>>
    seriesCache,    \* _series_cache
    outlookCache,   \* _outlook_cache
    syncStatus,     \* _sync_status
    ff5SyncStatus,  \* _ff5_sync_status
    now,            \* time.time()
    outlookFile,    \* what OUTLOOK_PATH holds on disk
    statsmodels_ok, \* _STATSMODELS_OK, fixed when the module is imported
    last,           \* the last call: what it met, what it returned or raised
    boot,           \* lifespan(): where the startup is, the steps it has made, the jobs
    inflight        \* the calls that have started and not returned, with their locals

vars == <<navStore, ff5Store, regTable, seriesCache, outlookCache, syncStatus,
          ff5SyncStatus, now, outlookFile, statsmodels_ok, last, boot, inflight>>

-----------------------------------------------------------------------------
(* Values *)

None == "None"
NaN == -1

\* exact rationals
RECURSIVE GCD(_, _)
GCD(a, b) == IF b = 0 THEN a ELSE GCD(b, a % b)

Abs(x) == IF x < 0 THEN -x ELSE x

Rat(n, d) ==
    LET g == GCD(Abs(n), Abs(d))
        s == IF d < 0 THEN -1 ELSE 1
    IN  <<(s * n) \div g, (s * d) \div g>>

RAdd(a, b) == Rat(a[1] * b[2] + b[1] * a[2], a[2] * b[2])
RMul(a, b) == Rat(a[1] * b[1], a[2] * b[2])
RZero == <<0, 1>>
ROne == <<1, 1>>

\* round(x, 6) of a rational, in 1e-6 units, ties to even
Million == 1000000
Round6(x) ==
    LET n == x[1] * Million
        d == x[2]
        q == n \div d
        r == n % d
    IN  IF 2 * r < d THEN q
        ELSE IF 2 * r > d THEN q + 1
        ELSE IF q % 2 = 0 THEN q ELSE q + 1

-----------------------------------------------------------------------------
(* Dates *)

START_DATE == <<2026, 2, 2>>
FF5_LOOKBACK_DATE == <<2024, 1, 1>>

\* comparison of two "%Y-%m-%d" strings
DateLT(a, b) ==
    \/ a[1] < b[1]
    \/ a[1] = b[1] /\ a[2] < b[2]
    \/ a[1] = b[1] /\ a[2] = b[2] /\ a[3] < b[3]

DateLE(a, b) == a = b \/ DateLT(a, b)

\* sort_index() / ORDER BY date: insertion into the sorted rest
InsertDate(x, s) ==
    LET k == Cardinality({i \in DOMAIN s : DateLT(s[i], x)})
    IN  SubSeq(s, 1, k) \o <<x>> \o SubSeq(s, k + 1, Len(s))

RECURSIVE SortDates(_)
SortDates(S) ==
    IF S = {} THEN <<>>
    ELSE LET x == CHOOSE d \in S : TRUE IN InsertDate(x, SortDates(S \ {x}))

MinDate(S) == CHOOSE d \in S : \A e \in S : d = e \/ DateLT(d, e)
MaxDate(S) == CHOOSE d \in S : \A e \in S : d = e \/ DateLT(e, d)

Range(s) == {s[i] : i \in DOMAIN s}

-----------------------------------------------------------------------------
(* Catalog *)

CASH == <<"C", "A", "S", "H">>
BRK_B == <<"B", "R", "K", ".", "B">>
GLD == <<"G", "L", "D">>
TLT == <<"T", "L", "T">>

\* The catalog restricted to three of its tickers; weights in hundredths.  A
\* holding left out behaves as a holding whose symbol the market did not return.
PORTFOLIOS ==
    [p \in {"Meta AI Thinking", "Gemini-3"} |->
        IF p = "Meta AI Thinking"
        THEN [t \in {BRK_B, GLD} |-> 10]
        ELSE [t \in {TLT, CASH} |-> IF t = TLT THEN 10 ELSE 5]]

PortfolioNames == DOMAIN PORTFOLIOS

WeightDen == 100
INITIAL_CAPITAL == <<100, 1>>

\* str.upper() on the characters a ticker can hold
Upper(c) ==
    CASE c = "c" -> "C" [] c = "a" -> "A" [] c = "s" -> "S" [] c = "h" -> "H"
      [] OTHER -> c

UpperStr(t) == [i \in DOMAIN t |-> Upper(t[i])]

RECURSIVE LStrip(_)
LStrip(t) == IF t # <<>> /\ Head(t) = " " THEN LStrip(Tail(t)) ELSE t

RECURSIVE RStrip(_)
RStrip(t) ==
    IF t # <<>> /\ t[Len(t)] = " " THEN RStrip(SubSeq(t, 1, Len(t) - 1)) ELSE t

Strip(t) == RStrip(LStrip(t))

yahoo_ticker(t0) ==
    LET t == Strip(t0)
    IN  IF UpperStr(t) = CASH THEN t
        ELSE [i \in DOMAIN t |-> IF t[i] = "." THEN "-" ELSE t[i]]

all_original ==
    {t \in UNION {DOMAIN PORTFOLIOS[p] : p \in PortfolioNames} : UpperStr(t) # CASH}

yahoo_tickers == {yahoo_ticker(t) : t \in all_original}


-----------------------------------------------------------------------------
(* yfinance responses.  A response is [kind |-> "none"] or a frame        *)
(*   [kind |-> "frame", multi, index, cols]                                *)
(* index: the set of dates of raw.index; cols: with multi (group_by=       *)
(* "ticker"), ticker -> [hasClose, close]; without, field name -> the same. *)

NoneRaw == [kind |-> "none"]
CloseKey == <<"C", "l", "o", "s", "e">>

\* raw is None or raw.empty
RawEmpty(raw) ==
    \/ raw.kind = "none"
    \/ raw.index = {}
    \/ DOMAIN raw.cols = {}

\* the columns of `close` before dropna; "Unexpected" stands for the raise
CloseColumns(raw) ==
    IF raw.multi
    THEN {yt \in yahoo_tickers : yt \in DOMAIN raw.cols /\ raw.cols[yt].hasClose}
    ELSE IF CloseKey \in DOMAIN raw.cols /\ Cardinality(yahoo_tickers) = 1
         THEN yahoo_tickers
         ELSE {}

UnexpectedColumns(raw) ==
    ~raw.multi /\ ~(CloseKey \in DOMAIN raw.cols /\ Cardinality(yahoo_tickers) = 1)

RawClose(raw, yt) ==
    IF raw.multi THEN raw.cols[yt].close ELSE raw.cols[CloseKey].close

\* dropna(axis=1, how="all")
KeptColumns(raw) ==
    {yt \in CloseColumns(raw) : \E d \in raw.index : RawClose(raw, yt)[d] # NaN}

\* ffill() along the sorted index
RECURSIVE FFill(_, _, _)
FFill(col, idx, i) ==
    IF col[idx[i]] # NaN THEN col[idx[i]]
    ELSE IF i = 1 THEN NaN
    ELSE FFill(col, idx, i - 1)

\* A variant that leaves the first row at the change from a unit base price
\* instead of forcing it to zero.
Returns_FirstRowKept(col, idx, i) ==
    LET cur == FFill(col, idx, i)
        prev == IF i = 1 THEN 1 ELSE FFill(col, idx, i - 1)
    IN  IF prev = NaN \/ cur = NaN \/ prev = 0 THEN RZero
        ELSE Rat(cur - prev, prev)

\* close.pct_change() with +-inf -> NaN, row 0 forced to 0.0, NaN -> 0.0
Returns(col, idx, i) ==
    IF i = 1 THEN RZero
    ELSE LET cur == FFill(col, idx, i)
             prev == FFill(col, idx, i - 1)
         IN  IF prev = NaN \/ cur = NaN THEN RZero     \* NaN, filled with 0.0
             ELSE IF prev = 0 THEN RZero               \* +-inf or 0/0, replaced
             ELSE Rat(cur - prev, prev)

RECURSIVE RSum(_, _)
RSum(S, f) ==
    IF S = {} THEN RZero
    ELSE LET x == CHOOSE y \in S : TRUE
         IN  RAdd(f[x], RSum(S \ {x}, f))

\* A variant that rescales the weights of the holdings found in the return
\* table so that they sum to 1.
HoldingWeight_Renormalized(pname, ot, cols) ==
    LET present == {t \in DOMAIN PORTFOLIOS[pname] :
                        UpperStr(t) # CASH /\ yahoo_ticker(t) \in cols}
        total == RSum(present, [t \in present |-> Rat(PORTFOLIOS[pname][t], WeightDen)])
    IN  IF total = RZero THEN RZero
        ELSE Rat(PORTFOLIOS[pname][ot] * total[2], WeightDen * total[1])

\* wt = float(w.get(ot, 0.0)): the declared weight, whatever the columns are
HoldingWeight(pname, ot, cols) == Rat(PORTFOLIOS[pname][ot], WeightDen)

\* contrib at row i: the sum of wt * returns[yt] over the non-CASH holdings
\* with wt # 0 whose yahoo ticker is a column of returns
Contrib(pname, raw, cols, idx, i) ==
    LET orig_holdings == {t \in DOMAIN PORTFOLIOS[pname] : UpperStr(t) # CASH}
        used == {ot \in orig_holdings :
                    /\ HoldingWeight(pname, ot, cols) # RZero
                    /\ yahoo_ticker(ot) \in cols}
    IN  RSum(used, [ot \in used |->
                RMul(HoldingWeight(pname, ot, cols),
                     Returns(RawClose(raw, yahoo_ticker(ot)), idx, i))])

\* INITIAL_CAPITAL * (1.0 + contrib).cumprod(): rows 1..i of one column
RECURSIVE CumProd(_, _, _, _, _)
CumProd(pname, raw, cols, idx, i) ==
    LET f == RAdd(ROne, Contrib(pname, raw, cols, idx, i))
    IN  IF i = 0 THEN <<>>
        ELSE IF i = 1 THEN <<RMul(INITIAL_CAPITAL, f)>>
        ELSE LET before == CumProd(pname, raw, cols, idx, i - 1)
             IN  Append(before, RMul(before[i - 1], f))

\* _compute_nav_dataframe(start): raw1 and raw2 are what the two downloads
\* (threads on, then threads off) answer.  The result is
\* [ok, error, fetches, index, cum]: ok = FALSE stands for the raise.
NavFailure(msg, n) ==
    [ok |-> FALSE, error |-> msg, fetches |-> n, index |-> <<>>,
     cum |-> [p \in {} |-> <<>>]]

\* A variant that downloads a second time whatever the first answer was.
Downloads_Always(raw1, raw2) ==
    <<[threads |-> TRUE, raw |-> raw1], [threads |-> FALSE, raw |-> raw2]>>

\* the calls of _download made: raw = _download(threads=True), and
\* raw = _download(threads=False) if raw is None or empty
Downloads(raw1, raw2) ==
    <<[threads |-> TRUE, raw |-> raw1]>>
    \o (IF RawEmpty(raw1) THEN <<[threads |-> FALSE, raw |-> raw2]>> ELSE <<>>)

_compute_nav_dataframe(raw1, raw2) ==
    LET calls == Downloads(raw1, raw2)
        n == Len(calls)
        raw == calls[n].raw
    IN  IF RawEmpty(raw) THEN NavFailure("yfinance returned no data", n)
        ELSE IF UnexpectedColumns(raw) THEN NavFailure("Unexpected yfinance columns", n)
        ELSE LET cols == KeptColumns(raw)
                 idx == SortDates(raw.index)
             IN  IF cols = {} THEN NavFailure("Close prices empty after filtering.", n)
                 ELSE IF PortfolioNames = {} THEN NavFailure("No portfolios computed.", n)
                 ELSE [ok |-> TRUE, error |-> None, fetches |-> n, index |-> idx,
                       cum |-> [p \in PortfolioNames |->
                                   CumProd(p, raw, cols, idx, Len(idx))]]

-----------------------------------------------------------------------------
(* Table portfolio_prices, PRIMARY KEY (date, portfolio_name), nav NOT NULL *)

RowKey(r) == <<r[1], r[2]>>

\* A variant that inserts without replacing the row that holds the key.
UpsertRow_NoReplace(store, row) == store \cup {row}

\* INSERT OR REPLACE of one row
UpsertRow(store, row) == {r \in store : RowKey(r) # RowKey(row)} \cup {row}

RECURSIVE UpsertAll(_, _)
UpsertAll(store, rows) ==
    IF rows = <<>> THEN store
    ELSE UpsertAll(UpsertRow(store, Head(rows)), Tail(rows))

\* A variant that empties the table before it inserts.
_db_upsert_Truncating(store, rows) ==
    IF \E i \in DOMAIN rows : rows[i][3] = NaN
    THEN [ok |-> FALSE, store |-> store]
    ELSE [ok |-> TRUE, store |-> UpsertAll({}, rows)]

\* _db_upsert(rows): one transaction.  A NaN binds as NULL, which the NOT NULL
\* column refuses: the statement raises and the connection rolls back.
_db_upsert(store, rows) ==
    IF \E i \in DOMAIN rows : rows[i][3] = NaN
    THEN [ok |-> FALSE, store |-> store]
    ELSE [ok |-> TRUE, store |-> UpsertAll(store, rows)]

EmptyFrame == [empty |-> TRUE, index |-> <<>>, columns |-> {},
               cell |-> [k \in {} |-> NaN]]

\* A variant whose WHERE clause keeps every row.
FloorFilter_None(store) == store

\* SELECT ... WHERE date >= START_DATE
FloorFilter(store) == {r \in store : DateLE(START_DATE, r[1])}

\* _db_read_pivot(): date x portfolio_name -> nav, ascending by date, NaN
\* where a portfolio has no row on a date.  pivot() raises on a duplicate
\* (date, portfolio_name) pair: ok = FALSE.
_db_read_pivot(store) ==
    LET df == FloorFilter(store)
        dates == {r[1] : r \in df}
        names == {r[2] : r \in df}
    IN  IF df = {} THEN [ok |-> TRUE, frame |-> EmptyFrame]
        ELSE IF \E r1, r2 \in df : r1 # r2 /\ RowKey(r1) = RowKey(r2)
             THEN [ok |-> FALSE, frame |-> EmptyFrame]
        ELSE [ok |-> TRUE,
              frame |-> [empty |-> FALSE,
                         index |-> SortDates(dates),
                         columns |-> names,
                         cell |-> [k \in dates \X names |->
                                    IF \E r \in df : RowKey(r) = k
                                    THEN (CHOOSE r \in df : RowKey(r) = k)[3]
                                    ELSE NaN]]]

NoDate == <<>>

\* _db_latest_date(): SELECT MAX(date)
_db_latest_date(store) ==
    IF store = {} THEN NoDate ELSE MaxDate({r[1] : r \in store})

-----------------------------------------------------------------------------
(* Payload builder, outlook loader *)

NonePayload == [kind |-> "None"]
JsonNull == -2

\* sanitize_for_json on one number: NaN -> None
sanitize_for_json(x) == IF x = NaN THEN JsonNull ELSE x

\* cum.columns keeps the insertion order of PORTFOLIOS
PortfolioOrder == <<"Gemini-3", "Meta AI Thinking">>

\* eq = cum[name].dropna(): the non-NaN values of one column, by date
RECURSIVE DropNa(_)
DropNa(s) ==
    IF s = <<>> THEN <<>>
    ELSE IF Head(s) = NaN THEN DropNa(Tail(s))
    ELSE <<Head(s)>> \o DropNa(Tail(s))

Column(frame, name) == [i \in DOMAIN frame.index |-> frame.cell[<<frame.index[i], name>>]]

RLE(a, b) == a[1] * b[2] <= b[1] * a[2]

\* the float NaN among rationals: 0 / 0
RNaN == <<0, 0>>

\* A variant whose peak is the highest value of the whole curve.
CumMax_Global(equity) ==
    [i \in DOMAIN equity |->
        CHOOSE m \in Range(equity) : \A x \in Range(equity) : x <= m]

\* equity.cummax(): the highest value so far
CumMax(equity) ==
    [i \in DOMAIN equity |->
        CHOOSE m \in {equity[j] : j \in 1..i} : \A j \in 1..i : equity[j] <= m]

\* _max_drawdown(equity) = (equity / peak - 1.0).min() on a curve of
\* non-negative values: 0 / 0 is NaN, min() skips NaN and is NaN when
\* nothing is left
_max_drawdown(equity) ==
    LET peak == CumMax(equity)
        defined == {i \in DOMAIN equity : peak[i] # 0}
        dd == {RAdd(Rat(equity[i], peak[i]), <<-1, 1>>) : i \in defined}
    IN  IF dd = {} THEN RNaN
        ELSE CHOOSE x \in dd : \A y \in dd : RLE(x, y)

\* _compute_stats(cum): an entry for every column with at least 2 points
_compute_stats(frame) ==
    LET has == {name \in frame.columns : Len(DropNa(Column(frame, name))) >= 2}
    IN  [name \in has |->
            LET eq == DropNa(Column(frame, name))
            IN  [max_drawdown |-> _max_drawdown(eq),
                 start_value |-> eq[1], end_value |-> eq[Len(eq)]]]

\* _build_payload_from_db(): readFails stands for sqlite3 raising on the read
_build_payload_from_db(store, readFails) ==
    LET pv == _db_read_pivot(store)
    IN  IF readFails \/ ~pv.ok
        THEN [ok |-> FALSE, error |-> "sqlite3 error", payload |-> NonePayload]
        ELSE IF pv.frame.empty
        THEN [ok |-> FALSE, error |-> "Database is empty", payload |-> NonePayload]
        ELSE [ok |-> TRUE, error |-> None,
              payload |-> [kind |-> "series",
                           labels |-> pv.frame.index,
                           series |-> [col \in pv.frame.columns |->
                                          [i \in DOMAIN pv.frame.index |->
                                              sanitize_for_json(Column(pv.frame, col)[i])]],
                           stats |-> _compute_stats(pv.frame),
                           holdings |-> PORTFOLIOS,
                           start_date |-> START_DATE]]

\* What OUTLOOK_PATH can hold: no file, the JSON document null, or one of two
\* JSON objects ("garbage", a file that is not JSON, is handled but not drawn).
OutlookFiles == {"missing", "null", "docA", "docB"}

\* load_outlook()
load_outlook(file) ==
    IF file = "missing"
    THEN [ok |-> FALSE, error |-> "outlook.json not found", payload |-> NonePayload]
    ELSE IF file = "garbage"
    THEN [ok |-> FALSE, error |-> "JSONDecodeError", payload |-> NonePayload]
    ELSE IF file = "null"
    THEN [ok |-> TRUE, error |-> None, payload |-> NonePayload]
    ELSE [ok |-> TRUE, error |-> None, payload |-> [kind |-> "outlook", doc |-> file]]

-----------------------------------------------------------------------------
(* Response cache *)

SERIES_CACHE_SECONDS == 60
OUTLOOK_CACHE_SECONDS == 300

\* A variant that takes the age in milliseconds.
CacheFresh_Millis(cache, t, ttl) ==
    cache.payload # NonePayload /\ (t - cache.ts) * 1000 < ttl

\* cache["payload"] is not None and (now - cache["ts"] < TTL)
CacheFresh(cache, t, ttl) ==
    cache.payload # NonePayload /\ t - cache.ts < ttl

\* A variant that leaves the timestamp alone.
Invalidate_Noop(cache) == cache

\* _series_cache["ts"] = 0.0
Invalidate(cache) == [cache EXCEPT !.ts = 0]

-----------------------------------------------------------------------------
(* sync_from_yfinance *)

\* rows = [(dt.strftime("%Y-%m-%d"), pname, round(float(nav), 6))
\*         for pname in cum.columns for dt, nav in cum[pname].items()]
RECURSIVE NavRows(_, _)
NavRows(nav, names) ==
    IF names = <<>> THEN <<>>
    ELSE [i \in DOMAIN nav.index |->
             <<nav.index[i], Head(names), Round6(nav.cum[Head(names)][i])>>]
         \o NavRows(nav, Tail(names))

InitialSyncStatus ==
    [ok |-> "None", rows_upserted |-> 0, latest_date |-> NoDate, error |-> None, ts |-> 0]

\* sync_from_yfinance(): nav is what _compute_nav_dataframe(START_DATE) gives
\* on the market's answers, writeFails and readFails stand for sqlite3 raising
\* in _db_upsert and in _db_latest_date.  The result is [raised, status,
\* store, cache, fetches].
\* A variant that resets the cache timestamp whether or not the refresh
\* succeeded.
sync_from_yfinance_InvalidateAlways(store, cache, status, nav, writeFails, readFails, t) ==
    LET rows == NavRows(nav, PortfolioOrder)
        up == _db_upsert(store, rows)
    IN  IF nav.ok /\ ~writeFails /\ up.ok
        THEN [raised |-> FALSE,
              status |-> [ok |-> "True", rows_upserted |-> Len(rows),
                          latest_date |-> nav.index[Len(nav.index)],
                          error |-> None, ts |-> t],
              store |-> up.store, cache |-> Invalidate(cache), fetches |-> nav.fetches]
        ELSE IF readFails
        THEN [raised |-> TRUE, status |-> status, store |-> store,
              cache |-> Invalidate(cache), fetches |-> nav.fetches]
        ELSE [raised |-> FALSE,
              status |-> [ok |-> "False", rows_upserted |-> 0,
                          latest_date |-> _db_latest_date(store),
                          error |-> IF ~nav.ok THEN nav.error ELSE "sqlite3 error",
                          ts |-> t],
              store |-> store, cache |-> Invalidate(cache), fetches |-> nav.fetches]

sync_from_yfinance(store, cache, status, nav, writeFails, readFails, t) ==
    LET rows == NavRows(nav, PortfolioOrder)
        up == _db_upsert(store, rows)
    IN  IF nav.ok /\ ~writeFails /\ up.ok
        THEN [raised |-> FALSE,
              status |-> [ok |-> "True", rows_upserted |-> Len(rows),
                          latest_date |-> nav.index[Len(nav.index)],
                          error |-> None, ts |-> t],
              store |-> up.store, cache |-> Invalidate(cache), fetches |-> nav.fetches]
        ELSE IF readFails
        THEN \* _db_latest_date() raises inside the except block
             [raised |-> TRUE, status |-> status, store |-> store, cache |-> cache,
              fetches |-> nav.fetches]
        ELSE [raised |-> FALSE,
              status |-> [ok |-> "False", rows_upserted |-> 0,
                          latest_date |-> _db_latest_date(store),
                          error |-> IF ~nav.ok THEN nav.error ELSE "sqlite3 error",
                          ts |-> t],
              store |-> store, cache |-> cache, fetches |-> nav.fetches]

-----------------------------------------------------------------------------
(* Tables ff5_daily (PRIMARY KEY date) and ff5_regressions (PRIMARY KEY    *)
(* portfolio_name).  A factor row is <<date, <<mkt_rf, smb, hml, rmw, cma,  *)
(* rf>>>>, in percent; a regression row is <<portfolio_name, result>>.  The *)
(* fitted coefficients are floating-point least squares and are not         *)
(* computed here: a result records n_obs and computed_at.                   *)

UpsertKeyed(store, row) == {r \in store : r[1] # row[1]} \cup {row}

RECURSIVE UpsertKeyedAll(_, _)
UpsertKeyedAll(store, rows) ==
    IF rows = <<>> THEN store
    ELSE UpsertKeyedAll(UpsertKeyed(store, Head(rows)), Tail(rows))

\* _upsert_ff5(rows)
_upsert_ff5(store, rows) == UpsertKeyedAll(store, rows)

\* _ff5_row_count()
_ff5_row_count(store) == Cardinality(store)

MIN_OBS == 20

RegFailure(msg) ==
    [ok |-> FALSE, error |-> msg, n_common |-> 0, detail |-> <<>>,
     portfolios_computed |-> 0, date_range |-> <<>>]

\* the INSERT OR REPLACE of db_rows, then the DELETE of every row whose
\* portfolio_name is not a key of PORTFOLIOS, in one transaction
RegCommit(tbl, db_rows) ==
    {r \in UpsertKeyedAll(tbl, db_rows) : r[1] \in PortfolioNames}

\* y = (ret_aligned[pname] - ff5_aligned["rf"]).dropna(): the common dates
\* on which neither term is NaN.  A return is NaN where the previous NAV is 0.
ExcessDates(nav, pname, ff5, common) ==
    LET col == nav.cum[pname]
        noReturn == {nav.index[i] : i \in {j \in 2..Len(nav.index) : col[j - 1][1] = 0}}
        noRf == {r[1] : r \in {x \in ff5 : x[2][6] = NaN}}
    IN  common \ (noReturn \cup noRf)

RECURSIVE RegRows(_, _, _, _, _, _)
RegRows(names, nav, ff5, common, fitFails, t) ==
    IF names = <<>> THEN <<>>
    ELSE LET pname == Head(names)
             y == ExcessDates(nav, pname, ff5, common)
             rest == RegRows(Tail(names), nav, ff5, common, fitFails, t)
         IN  IF Cardinality(y) < MIN_OBS THEN rest           \* skipped
             ELSE IF pname \in fitFails THEN rest            \* OLS raised, logged
             ELSE <<<<pname, [n_obs |-> Cardinality(y), computed_at |-> t]>>>> \o rest

\* _run_ff5_regressions(): statsOk is _STATSMODELS_OK, nav is what
\* _compute_nav_dataframe(FF5_LOOKBACK_DATE) gives on the market's answers,
\* ff5ReadFails and writeFails stand for sqlite3 raising on the ff5_daily read
\* and on the ff5_regressions write, fitFails is the set of portfolios whose
\* fit raises.  The result is [raised, result, table, fetches]; raised = TRUE
\* stands for an exception leaving the function.
RegressionRun(tbl, ff5, statsOk, nav, ff5ReadFails, fitFails, writeFails, t) ==
    LET retIndex == IF Len(nav.index) <= 1 THEN <<>>
                    ELSE SubSeq(nav.index, 2, Len(nav.index))
        ff5Dates == {r[1] : r \in ff5}
        common == Range(retIndex) \cap ff5Dates
        n_common == Cardinality(common)
        db_rows == RegRows(PortfolioOrder, nav, ff5, common, fitFails, t)
        Return(res, table, n) ==
            [raised |-> FALSE, result |-> res, table |-> table, fetches |-> n]
        Raise(n) ==
            [raised |-> TRUE, result |-> RegFailure("exception"), table |-> tbl,
             fetches |-> n]
    IN  IF ~statsOk THEN Return(RegFailure("statsmodels not installed"), tbl, 0)
        ELSE IF ~nav.ok
        THEN Return(RegFailure("Could not compute historical NAV for regression"),
                    tbl, nav.fetches)
        ELSE IF nav.index = <<>>
        THEN Return(RegFailure("Historical NAV empty"), tbl, nav.fetches)
        ELSE IF ff5ReadFails THEN Raise(nav.fetches)
        ELSE IF ff5 = {}
        THEN Return(RegFailure("No FF5 data in DB"), tbl, nav.fetches)
        ELSE IF n_common < MIN_OBS
        THEN IF retIndex = <<>>
             THEN Raise(nav.fetches)      \* ret_df.index[0]: IndexError
             ELSE Return([ok |-> FALSE,
                          error |-> "Only n_common overlapping trading days",
                          n_common |-> n_common,
                          detail |-> <<retIndex[1], retIndex[Len(retIndex)],
                                       MinDate(ff5Dates), MaxDate(ff5Dates)>>,
                          portfolios_computed |-> 0, date_range |-> <<>>],
                         tbl, nav.fetches)
        ELSE IF db_rows # <<>> /\ writeFails THEN Raise(nav.fetches)
        ELSE Return([ok |-> TRUE, error |-> None, n_common |-> n_common,
                     detail |-> <<>>,
                     portfolios_computed |-> Len(db_rows),
                     date_range |-> <<MinDate(common), MaxDate(common)>>],
                    IF db_rows # <<>> THEN RegCommit(tbl, db_rows) ELSE tbl,
                    nav.fetches)

\* A variant that clears ff5_regressions when the run does not succeed.
_run_ff5_regressions_ClearOnFailure(tbl, ff5, statsOk, nav, ff5ReadFails, fitFails, writeFails, t) ==
    LET r == RegressionRun(tbl, ff5, statsOk, nav, ff5ReadFails, fitFails, writeFails, t)
    IN  IF r.raised \/ ~r.result.ok THEN [r EXCEPT !.table = {}] ELSE r

\* A variant that goes on without having downloaded anything.
_run_ff5_regressions_NoDownload(tbl, ff5, statsOk, nav, ff5ReadFails, fitFails, writeFails, t) ==
    [RegressionRun(tbl, ff5, statsOk, nav, ff5ReadFails, fitFails, writeFails, t) EXCEPT !.fetches = 0]

_run_ff5_regressions(tbl, ff5, statsOk, nav, ff5ReadFails, fitFails, writeFails, t) ==
    RegressionRun(tbl, ff5, statsOk, nav, ff5ReadFails, fitFails, writeFails, t)

InitialFF5SyncStatus ==
    [ok |-> "None", ff5_rows |-> 0, reg_portfolios |-> 0, reg_n_obs |-> 0,
     reg_date_range |-> <<>>, reg_error |-> None, error |-> None, ts |-> 0]

\* what the regression run inside a factor refresh came to
NotCalled == [called |-> FALSE, raised |-> FALSE, ok |-> FALSE, error |-> None]
Called(reg) ==
    [called |-> TRUE, raised |-> reg.raised, ok |-> ~reg.raised /\ reg.result.ok,
     error |-> reg.result.error]

\* A variant that reports the refresh as failed when the regression run
\* returns a failure.
sync_ff5_RegressionRequired(tbl, ff5, statsOk, dl, upsertFails, nav, ff5ReadFails, fitFails, writeFails, t) ==
    LET stored == _upsert_ff5(ff5, dl.rows)
        reg == _run_ff5_regressions(tbl, stored, statsOk, nav, ff5ReadFails, fitFails, writeFails, t)
        ok == dl.ok /\ ~upsertFails /\ ~reg.raised /\ reg.result.ok
    IN  [status |-> [ok |-> IF ok THEN "True" ELSE "False",
                     ff5_rows |-> IF ok THEN Len(dl.rows) ELSE 0,
                     reg_portfolios |-> IF ok THEN reg.result.portfolios_computed ELSE 0,
                     reg_n_obs |-> IF ok THEN reg.result.n_common ELSE 0,
                     reg_date_range |-> IF ok THEN reg.result.date_range ELSE <<>>,
                     reg_error |-> None,
                     error |-> IF ok THEN None ELSE "refresh failed", ts |-> t],
         store |-> IF dl.ok /\ ~upsertFails THEN stored ELSE ff5,
         table |-> IF dl.ok /\ ~upsertFails THEN reg.table ELSE tbl,
         fetches |-> IF dl.ok /\ ~upsertFails THEN reg.fetches ELSE 0,
         reg |-> IF dl.ok /\ ~upsertFails THEN Called(reg) ELSE NotCalled]

\* sync_ff5(): dl is what _download_and_parse_ff5 gives, [ok, rows];
\* upsertFails stands for sqlite3 raising in _upsert_ff5.  The result is
\* [status, store, table, fetches, reg]; sync_ff5 catches every exception.
sync_ff5(tbl, ff5, statsOk, dl, upsertFails, nav, ff5ReadFails, fitFails, writeFails, t) ==
    LET stored == _upsert_ff5(ff5, dl.rows)
        reg == _run_ff5_regressions(tbl, stored, statsOk, nav, ff5ReadFails, fitFails, writeFails, t)
        Failed(msg, store, n, r) ==
            [status |-> [ok |-> "False", ff5_rows |-> 0, reg_portfolios |-> 0,
                         reg_n_obs |-> 0, reg_date_range |-> <<>>, reg_error |-> None,
                         error |-> msg, ts |-> t],
             store |-> store, table |-> tbl, fetches |-> n,
             reg |-> r]
    IN  IF ~dl.ok THEN Failed("download failed", ff5, 0, NotCalled)
        ELSE IF upsertFails THEN Failed("sqlite3 error", ff5, 0, NotCalled)
        ELSE IF reg.raised THEN Failed("exception in regression", stored, reg.fetches, Called(reg))
        ELSE [status |-> [ok |-> "True", ff5_rows |-> Len(dl.rows),
                          reg_portfolios |-> reg.result.portfolios_computed,
                          reg_n_obs |-> IF reg.result.ok THEN reg.result.n_common ELSE 0,
                          reg_date_range |-> reg.result.date_range,
                          reg_error |-> IF reg.result.ok THEN None ELSE reg.result.error,
                          error |-> None, ts |-> t],
              store |-> stored, table |-> reg.table, fetches |-> reg.fetches,
              reg |-> Called(reg)]

\* manual_sync(): sync_from_yfinance(), then _run_ff5_regressions(); an
\* exception of either leaves the handler.  fault is <<writeFails,
\* readFails>> of the refresh, env what the regression run meets.
\* [raised, value, store, cache, status, table, fetches]
manual_sync(store, cache, status, tbl, ff5, statsOk, nav, fault, regNav, env, t) ==
    LET s == sync_from_yfinance(store, cache, status, nav, fault[1], fault[2], t)
        reg == _run_ff5_regressions(tbl, ff5, statsOk, regNav, env.ff5ReadFails, env.fitFails, env.writeFails, t)
    IN  IF s.raised
        THEN [raised |-> TRUE, value |-> <<>>, store |-> s.store, cache |-> s.cache,
              status |-> s.status, table |-> tbl, fetches |-> s.fetches]
        ELSE [raised |-> reg.raised,
              value |-> IF reg.raised THEN <<>>
                        ELSE <<s.status, reg.result>>,
              store |-> s.store, cache |-> s.cache, status |-> s.status,
              table |-> reg.table, fetches |-> s.fetches + reg.fetches]

-----------------------------------------------------------------------------
(* One sqlite3 connection writing: `with sqlite3.connect(DB_PATH) as conn`  *)
(* opens a transaction at the first INSERT, runs the statements one by one  *)
(* against its own view, and commits; an exception rolls the view back.    *)
(* Another connection reads the committed table.  A transaction is          *)
(*   [op |-> "write", table, stmts, done, view, base]                       *)
(* with base the table when it began; a statement is <<"put", row>> or      *)
(* <<"purge", <<>>>> (DELETE ... WHERE portfolio_name NOT IN the catalog).  *)

TableNames == {"portfolio_prices", "ff5_daily", "ff5_regressions"}

\* one statement against the transaction's view
ApplyStmt(table, view, stmt) ==
    IF stmt[1] = "purge" THEN {r \in view : r[1] \in PortfolioNames}
    ELSE IF table = "portfolio_prices" THEN UpsertRow(view, stmt[2])
    ELSE UpsertKeyed(view, stmt[2])

\* the statement raises: nav REAL NOT NULL
StmtFails(table, stmt) ==
    table = "portfolio_prices" /\ stmt[1] = "put" /\ stmt[2][3] = NaN

\* A variant in which a reader sees the rows a transaction has not committed.
ReaderView_Dirty(committed, view) == view

\* what another connection reads while a transaction is open on the table
ReaderView(committed, view) == committed

-----------------------------------------------------------------------------
(* Read endpoints *)

\* portfolio_series(): [raised, value, cache, reads, failed]; reads counts the
\* store reads made, failed tells that _build_payload_from_db raised.  Its
\* exception leaves the handler.
portfolio_series(cache, store, readFails, t) ==
    LET built == _build_payload_from_db(store, readFails)
    IN  IF CacheFresh(cache, t, SERIES_CACHE_SECONDS)
        THEN [raised |-> FALSE, value |-> cache.payload, cache |-> cache, reads |-> 0,
              failed |-> FALSE]
        ELSE IF built.ok
        THEN [raised |-> FALSE, value |-> built.payload,
              cache |-> [ts |-> t, payload |-> built.payload], reads |-> 1,
              failed |-> FALSE]
        ELSE [raised |-> TRUE, value |-> NonePayload, cache |-> cache, reads |-> 1,
              failed |-> TRUE]

\* outlook(): [raised, value, cache, reads, failed]; reads counts the file
\* reads made, failed tells that load_outlook raised
outlook(cache, file, t) ==
    LET loaded == load_outlook(file)
    IN  IF CacheFresh(cache, t, OUTLOOK_CACHE_SECONDS)
        THEN [raised |-> FALSE, value |-> cache.payload, cache |-> cache, reads |-> 0,
              failed |-> FALSE]
        ELSE IF loaded.ok
        THEN [raised |-> FALSE, value |-> loaded.payload,
              cache |-> [ts |-> t, payload |-> loaded.payload, last_error |-> None],
              reads |-> 1, failed |-> FALSE]
        ELSE [raised |-> cache.payload = NonePayload, value |-> cache.payload,
              cache |-> [cache EXCEPT !.last_error = loaded.error], reads |-> 1,
              failed |-> TRUE]

\* ff5_loadings(): {} when the table is empty, else portfolio_name -> the
\* fitted coefficients of its row (not computed here: "loadings").
\* [raised, value]; readFails stands for sqlite3 raising on the read.
ff5_loadings(tbl, readFails) ==
    IF readFails
    THEN [raised |-> TRUE, value |-> [n \in {} |-> "loadings"]]
    ELSE [raised |-> FALSE, value |-> [n \in {r[1] : r \in tbl} |-> "loadings"]]

\* health(): [raised, value]; readFails stands for sqlite3 raising in
\* _db_latest_date
health(store, status, ff5Status, statsOk, cache, ocache, t, readFails) ==
    IF readFails
    THEN [raised |-> TRUE, value |-> [ok |-> FALSE]]
    ELSE [raised |-> FALSE,
          value |-> [ok |-> TRUE,
                     db_latest_date |-> _db_latest_date(store),
                     last_nav_sync |-> [ok |-> status.ok,
                                        rows_upserted |-> status.rows_upserted,
                                        latest_date |-> status.latest_date,
                                        error |-> status.error],
                     last_ff5_sync |-> [ok |-> ff5Status.ok,
                                        ff5_rows |-> ff5Status.ff5_rows,
                                        reg_portfolios |-> ff5Status.reg_portfolios,
                                        error |-> ff5Status.error],
                     statsmodels_available |-> statsOk,
                     series_cache_age_s |-> IF cache.payload # NonePayload
                                            THEN t - cache.ts ELSE JsonNull,
                     outlook_cached |-> ocache.payload # NonePayload]]

-----------------------------------------------------------------------------
(* The environment: the clock, the market, the factor library, the disk *)

\* time.time() when the process starts, and the later instants the calls are
\* made at (seconds after the start)
Epoch == 1000
Instants == {0, 59, 60, 300}

LiveCalendar == << <<2026, 2, 2>>, <<2026, 2, 3>>, <<2026, 2, 4>> >>
LiveDates == Range(LiveCalendar)
LivePrefix(k) == {LiveCalendar[i] : i \in 1..k}

MaxLookback == 21
LookbackDates(k) == {<<2024, 1, 1 + i>> : i \in 1..k}

\* price of a ticker on a date under a market scenario: 1 flat; 2 the day of
\* the month; 3 as 2 with no GLD price on the first live day
Scenarios == {2, 3}
Quote(sc, yt, d) ==
    IF sc = 1 THEN 1
    ELSE IF sc = 3 /\ yt = GLD /\ d = LiveCalendar[1] THEN NaN
    ELSE d[3]

Frame(dates, cols, sc) ==
    [kind |-> "frame", multi |-> TRUE, index |-> dates,
     cols |-> [yt \in cols |->
                 [hasClose |-> TRUE, close |-> [d \in dates |-> Quote(sc, yt, d)]]]]

\* a frame with ticker columns but no Close field
NoCloseRaw ==
    [kind |-> "frame", multi |-> TRUE, index |-> LivePrefix(1),
     cols |-> [yt \in yahoo_tickers |->
                 [hasClose |-> FALSE, close |-> [d \in LivePrefix(1) |-> NaN]]]]

\* a frame whose columns are not grouped by ticker
FlatRaw ==
    [kind |-> "frame", multi |-> FALSE, index |-> LivePrefix(1),
     cols |-> [f \in {CloseKey} |->
                 [hasClose |-> TRUE, close |-> [d \in LivePrefix(1) |-> 1]]]]

EmptyRaw == [kind |-> "frame", multi |-> TRUE, index |-> {},
             cols |-> [yt \in {} |-> [hasClose |-> FALSE, close |-> <<>>]]]

\* the answers to download(start = START_DATE)
LiveColumns == {yahoo_tickers, {GLD}}
LiveResponses ==
    {NoneRaw, EmptyRaw, NoCloseRaw, FlatRaw}
    \cup {Frame(D, C, sc) : D \in (SUBSET LiveDates) \ {{}}, C \in LiveColumns,
                            sc \in Scenarios}

\* the pairs (first answer, answer to the retry); the retry is made only
\* after an empty first answer
Retried(responses, retries) ==
    {<<r, NoneRaw>> : r \in {x \in responses : ~RawEmpty(x)}}
    \cup {<<r1, r2>> : r1 \in {x \in responses : RawEmpty(x)}, r2 \in retries}

\* the answers to the retry
RetryResponses ==
    {NoneRaw, EmptyRaw, NoCloseRaw, Frame(LivePrefix(1), {GLD}, 1),
     Frame(LivePrefix(2), yahoo_tickers, 2)}

LiveFeeds ==
    Retried(LiveResponses, {NoneRaw, Frame(LivePrefix(2), yahoo_tickers, 2)})

\* what _compute_nav_dataframe(START_DATE) gives on each of them
LiveNavs == {_compute_nav_dataframe(f[1], f[2]) : f \in LiveFeeds}

\* whether sqlite3 raises in _db_upsert and in _db_latest_date
SyncFaults == {<<FALSE, FALSE>>, <<TRUE, FALSE>>, <<TRUE, TRUE>>, <<FALSE, TRUE>>}

\* a small market for the cache: up at once, or up on the retry
CacheFeeds ==
    {<<Frame(LivePrefix(1), yahoo_tickers, 1), NoneRaw>>,
     <<EmptyRaw, Frame(LivePrefix(2), yahoo_tickers, 2)>>}
CacheNavs == {_compute_nav_dataframe(f[1], f[2]) : f \in CacheFeeds}

\* at startup: the same, or no answer at all
BootNavs == CacheNavs \cup {_compute_nav_dataframe(NoneRaw, NoneRaw)}

\* the answer to download(start = FF5_LOOKBACK_DATE) that holds the first k
\* lookback days; none for k = 0
LookbackFeed(k) ==
    IF k = 0 THEN NoneRaw ELSE Frame(LookbackDates(k), yahoo_tickers, 1)

LookbackLengths == {0, 1, MaxLookback}

\* the lookback NAV of each answer
LookbackNavs == {<<k, _compute_nav_dataframe(LookbackFeed(k), NoneRaw)>> : k \in LookbackLengths}
LookbackNav(k) == (CHOOSE x \in LookbackNavs : x[1] = k)[2]

\* factor rows of the lookback days a+1 .. b, the first nulls of them with
\* no risk-free rate
FF5Rows(a, b, nulls) ==
    [i \in 1..(b - a) |->
        <<<<2024, 1, 1 + a + i>>, <<1, 0, 0, 0, 0, IF i <= nulls THEN NaN ELSE 1>>>>]

\* what _download_and_parse_ff5 gives: it raises, or a list of rows.  With
\* the longest lookback answer the row lists share MIN_OBS - 1, MIN_OBS and
\* more dates with the returns; the last has 3 rows without a risk-free rate.
FF5Downloads ==
    {[ok |-> FALSE, rows |-> <<>>]}
    \cup {[ok |-> TRUE, rows |-> rows] :
            rows \in {FF5Rows(0, 0, 0), FF5Rows(1, MIN_OBS, 0),
                      FF5Rows(MaxLookback - MIN_OBS, MaxLookback, 0),
                      FF5Rows(0, MaxLookback, 3)}}

\* what one regression run meets: the number of lookback days the market
\* answers, whether sqlite3 raises on the ff5_daily read and on the
\* ff5_regressions write, and the portfolios whose fit raises
RegEnv(k, ff5ReadFails, fitFails, writeFails) ==
    [days |-> k, ff5ReadFails |-> ff5ReadFails, fitFails |-> fitFails,
     writeFails |-> writeFails]

RegEnvs ==
    {RegEnv(k, FALSE, {}, FALSE) : k \in LookbackLengths}
    \cup {RegEnv(MaxLookback, TRUE, {}, FALSE),
          RegEnv(MaxLookback, FALSE, {}, TRUE),
          RegEnv(MaxLookback, FALSE, {"Gemini-3"}, FALSE),
          RegEnv(MaxLookback, FALSE, PortfolioNames, FALSE)}

\* what one factor refresh meets: the download, whether sqlite3 raises in
\* _upsert_ff5, and what its regression run meets
FF5Envs ==
    {<<dl, FALSE, RegEnv(k, FALSE, {}, FALSE)>> : dl \in FF5Downloads, k \in LookbackLengths}
    \cup {<<[ok |-> TRUE, rows |-> FF5Rows(1, MIN_OBS, 0)], TRUE,
            RegEnv(MaxLookback, FALSE, {}, FALSE)>>}

\* a small world for the whole service: the factor download fails or gives
\* the rows of every lookback day; the lookback market is down or up
ServiceRegEnvs == {RegEnv(k, FALSE, {}, FALSE) : k \in {0, MaxLookback}}
ServiceFF5Envs ==
    {<<dl, FALSE, env>> :
        dl \in {[ok |-> FALSE, rows |-> <<>>],
                [ok |-> TRUE, rows |-> FF5Rows(0, MaxLookback, 0)]},
        env \in ServiceRegEnvs}

\* a regression row left in the table by a process with an earlier catalog
LegacyRegTable == {<<"Gemini-2.5", [n_obs |-> 20, computed_at |-> 0]>>}

\* NAV rows left in the table by a process with an earlier catalog
LegacyNavStore ==
    {<<START_DATE, "Gemini-2.5", 100 * Million>>,
     <<<<2026, 2, 3>>, "Gemini-2.5", 101 * Million>>}

-----------------------------------------------------------------------------
(* Initial state: empty tables unless said otherwise, the module-level     *)
(* caches and status records as app.py defines them                        *)

\* price tables for one NAV computation: on the three live days every
\* column is missing or holds, day by day, NaN or a price up to MaxPrice
MaxPrice == 2
Prices == {NaN} \cup (1..MaxPrice)
Absent == [d \in {} |-> NaN]
PriceColumns == [LiveDates -> Prices] \cup {Absent}

TableOf(b, g, t) ==
    LET col == [yt \in yahoo_tickers |->
                   IF yt = GLD THEN g ELSE IF yt = TLT THEN t ELSE b]
        present == {yt \in yahoo_tickers : col[yt] # Absent}
    IN  [kind |-> "frame", multi |-> TRUE, index |-> LiveDates,
         cols |-> [yt \in present |-> [hasClose |-> TRUE, close |-> col[yt]]]]

PriceTables ==
    {TableOf(b, g, t) : b \in PriceColumns, g \in PriceColumns,
                        t \in {Absent, [d \in LiveDates |-> d[3]]}}

\* rows handed to _db_upsert: one before the floor date, two for one key,
\* one that holds no NAV; a batch is a list of at most MaxBatch of them
MaxBatch == 2
StoreRows ==
    {<<<<2025, 12, 31>>, "Gemini-3", 100 * Million>>,
     <<START_DATE, "Gemini-3", 100 * Million>>,
     <<START_DATE, "Gemini-3", 99 * Million>>,
     <<START_DATE, "Meta AI Thinking", 99 * Million>>,
     <<<<2026, 2, 3>>, "Meta AI Thinking", 100 * Million>>,
     <<START_DATE, "Meta AI Thinking", NaN>>}
Batches == UNION {[1..n -> StoreRows] : n \in 0..MaxBatch}

\* NAV curves of one to MaxCurve points
MaxCurve == 3
CurveValues == {0, 50, 75, 100, 150}
Curves == UNION {[1..n -> CurveValues] : n \in 1..MaxCurve}

Idle == [op |-> "none"]

\* the threads that write (the scheduler's, a request's) and their batches:
\* two NAV batches, the second with a row that holds no NAV, a factor
\* batch, and the write of a regression run
Writers == {"w1", "w2"}
Puts(rows) == [i \in DOMAIN rows |-> <<"put", rows[i]>>]
WriteJobs ==
    {[table |-> "portfolio_prices", stmts |-> Puts(b)] :
        b \in {<<<<START_DATE, "Gemini-3", 100 * Million>>,
                  <<<<2026, 2, 3>>, "Meta AI Thinking", 100 * Million>>>>,
                <<<<START_DATE, "Gemini-3", 99 * Million>>,
                  <<START_DATE, "Meta AI Thinking", NaN>>>>}}
    \cup {[table |-> "ff5_daily", stmts |-> Puts(FF5Rows(0, 2, 0))],
          [table |-> "ff5_regressions",
           stmts |-> <<<<"put", <<"Gemini-3", [n_obs |-> MIN_OBS, computed_at |-> 0]>>>>,
                       <<"purge", <<>>>>>>]}

\* lifespan(): the steps of the startup, in the order of the code, and the
\* jobs it registers
JobIds == {"daily_nav_sync", "daily_ff5_sync"}
Booting == [pc |-> "init_db", steps |-> <<>>, jobs |-> {}]
Served ==
    [pc |-> "serving",
     steps |-> <<"init_db", "init_ff5_tables", "sync_from_yfinance", "sync_ff5", "add_jobs">>,
     jobs |-> JobIds]
BootStep(b, step, next) == [b EXCEPT !.pc = next, !.steps = Append(@, step)]

\* no call in flight
NoCalls == [c \in {} |-> Idle]

InitWith(okSet, regTables, files, first) ==
    /\ navStore = {}
    /\ ff5Store = {}
    /\ regTable \in regTables
    /\ seriesCache = [ts |-> 0, payload |-> NonePayload]
    /\ outlookCache = [ts |-> 0, payload |-> NonePayload, last_error |-> None]
    /\ syncStatus = InitialSyncStatus
    /\ ff5SyncStatus = InitialFF5SyncStatus
    /\ now = Epoch
    /\ outlookFile \in files
    /\ statsmodels_ok \in okSet
    /\ last = first
    /\ boot = Served
    /\ inflight = NoCalls

-----------------------------------------------------------------------------
(* Actions: one per call *)

\* the clock moves on
Tick ==
    /\ \E t \in Instants : Epoch + t > now /\ now' = Epoch + t
    /\ UNCHANGED <<boot, inflight, navStore, ff5Store, regTable, seriesCache, outlookCache, syncStatus,
                   ff5SyncStatus, outlookFile, statsmodels_ok, last>>

\* outlook.json is written, replaced or removed
SetOutlookFile ==
    /\ \E f \in OutlookFiles : f # outlookFile /\ outlookFile' = f
    /\ UNCHANGED <<boot, inflight, navStore, ff5Store, regTable, seriesCache, outlookCache, syncStatus,
                   ff5SyncStatus, now, statsmodels_ok, last>>

\* GET /api/outlook
GetOutlook ==
    LET r == outlook(outlookCache, outlookFile, now)
    IN  /\ outlookCache' = r.cache
        /\ last' = [op |-> "outlook", raised |-> r.raised, value |-> r.value,
                    reads |-> r.reads, failed |-> r.failed,
                    memo |-> outlookCache.payload]
        /\ UNCHANGED <<boot, inflight, navStore, ff5Store, regTable, seriesCache, syncStatus,
                       ff5SyncStatus, now, outlookFile, statsmodels_ok>>

\* GET /api/portfolio-series
GetPortfolioSeries ==
    \E readFails \in BOOLEAN :
        LET r == portfolio_series(seriesCache, navStore, readFails, now)
        IN  /\ seriesCache' = r.cache
            /\ last' = [op |-> "portfolio_series", raised |-> r.raised,
                        value |-> r.value, reads |-> r.reads, failed |-> r.failed,
                        memo |-> seriesCache.payload]
            /\ UNCHANGED <<boot, inflight, navStore, ff5Store, regTable, outlookCache, syncStatus,
                           ff5SyncStatus, now, outlookFile, statsmodels_ok>>

\* sync_from_yfinance(), from the scheduler or at startup
SyncNav(navs, faults) ==
    \E nav \in navs, fault \in faults :
        LET r == sync_from_yfinance(navStore, seriesCache, syncStatus, nav, fault[1], fault[2], now)
        IN  /\ navStore' = r.store
            /\ seriesCache' = r.cache
            /\ syncStatus' = r.status
            /\ last' = [op |-> "sync_from_yfinance", raised |-> r.raised,
                        value |-> r.status, fetches |-> r.fetches]
            /\ UNCHANGED <<boot, inflight, ff5Store, regTable, outlookCache, ff5SyncStatus, now,
                           outlookFile, statsmodels_ok>>

SyncNavCache == SyncNav(CacheNavs, {<<FALSE, FALSE>>})
SyncNavFaulty == SyncNav(BootNavs, SyncFaults)
SyncNavLive == SyncNav(LiveNavs, SyncFaults)

\* _run_ff5_regressions(), called at startup when ff5_daily holds rows
RunRegressionsIn(envs) ==
    \E env \in envs :
        LET r == _run_ff5_regressions(regTable, ff5Store, statsmodels_ok, LookbackNav(env.days), env.ff5ReadFails, env.fitFails, env.writeFails, now)
        IN  /\ regTable' = r.table
            /\ last' = [op |-> "_run_ff5_regressions", raised |-> r.raised,
                        value |-> r.result, fetches |-> r.fetches, env |-> env]
            /\ UNCHANGED <<boot, inflight, navStore, ff5Store, seriesCache, outlookCache, syncStatus,
                           ff5SyncStatus, now, outlookFile, statsmodels_ok>>

\* sync_ff5(), from the scheduler, at startup or GET /api/ff5/sync
SyncFF5In(envs) ==
    \E e \in envs :
        LET dl == e[1]
            env == e[3]
            r == sync_ff5(regTable, ff5Store, statsmodels_ok, dl, e[2], LookbackNav(env.days), env.ff5ReadFails, env.fitFails, env.writeFails, now)
        IN  /\ ff5Store' = r.store
            /\ regTable' = r.table
            /\ ff5SyncStatus' = r.status
            /\ last' = [op |-> "sync_ff5", raised |-> FALSE, value |-> r.status,
                        fetches |-> r.fetches, env |-> env, dl |-> dl,
                        upsertFails |-> e[2], reg |-> r.reg]
            /\ UNCHANGED <<boot, inflight, navStore, seriesCache, outlookCache, syncStatus, now,
                           outlookFile, statsmodels_ok>>

RunRegressions == RunRegressionsIn(RegEnvs)
SyncFF5 == SyncFF5In(FF5Envs)

\* lifespan() step 1: init_db(), then init_ff5_tables(); CREATE TABLE IF NOT
\* EXISTS leaves the rows of an existing table alone
BootInitDb ==
    /\ boot.pc = "init_db"
    /\ boot' = BootStep(boot, "init_db", "init_ff5_tables")
    /\ UNCHANGED <<navStore, ff5Store, regTable, seriesCache, outlookCache, syncStatus,
                   ff5SyncStatus, now, outlookFile, statsmodels_ok, last, inflight>>

BootInitFF5Tables ==
    /\ boot.pc = "init_ff5_tables"
    /\ boot' = BootStep(boot, "init_ff5_tables", "sync_from_yfinance")
    /\ UNCHANGED <<navStore, ff5Store, regTable, seriesCache, outlookCache, syncStatus,
                   ff5SyncStatus, now, outlookFile, statsmodels_ok, last, inflight>>

\* lifespan() step 2: await asyncio.to_thread(sync_from_yfinance); an
\* exception of it leaves lifespan
BootSyncNav ==
    /\ boot.pc = "sync_from_yfinance"
    /\ \E nav \in BootNavs, fault \in SyncFaults :
          LET r == sync_from_yfinance(navStore, seriesCache, syncStatus, nav, fault[1], fault[2], now)
          IN  /\ navStore' = r.store
              /\ seriesCache' = r.cache
              /\ syncStatus' = r.status
              /\ last' = [op |-> "sync_from_yfinance", raised |-> r.raised,
                          value |-> r.status, fetches |-> r.fetches]
              /\ boot' = BootStep(boot, "sync_from_yfinance",
                                  IF r.raised THEN "aborted" ELSE "ff5")
    /\ UNCHANGED <<ff5Store, regTable, outlookCache, ff5SyncStatus, now, outlookFile,
                   statsmodels_ok, inflight>>

\* A variant that downloads the factor data at every start.
NeedsFactorDownload_Always(ff5) == TRUE

\* if _ff5_row_count() == 0
NeedsFactorDownload(ff5) == _ff5_row_count(ff5) = 0

\* lifespan() step 3: sync_ff5() when ff5_daily is empty, else
\* _run_ff5_regressions(), whose exception leaves lifespan
BootFactors ==
    /\ boot.pc = "ff5"
    /\ IF NeedsFactorDownload(ff5Store)
       THEN \E e \in FF5Envs :
              LET env == e[3]
                  r == sync_ff5(regTable, ff5Store, statsmodels_ok, e[1], e[2], LookbackNav(env.days), env.ff5ReadFails, env.fitFails, env.writeFails, now)
              IN  /\ ff5Store' = r.store
                  /\ regTable' = r.table
                  /\ ff5SyncStatus' = r.status
                  /\ last' = [op |-> "sync_ff5", raised |-> FALSE, value |-> r.status,
                              fetches |-> r.fetches, env |-> env]
                  /\ boot' = BootStep(boot, "sync_ff5", "add_jobs")
       ELSE \E env \in RegEnvs :
              LET r == _run_ff5_regressions(regTable, ff5Store, statsmodels_ok, LookbackNav(env.days), env.ff5ReadFails, env.fitFails, env.writeFails, now)
              IN  /\ regTable' = r.table
                  /\ last' = [op |-> "_run_ff5_regressions", raised |-> r.raised,
                              value |-> r.result, fetches |-> r.fetches, env |-> env]
                  /\ boot' = BootStep(boot, "_run_ff5_regressions",
                                      IF r.raised THEN "aborted" ELSE "add_jobs")
                  /\ UNCHANGED <<ff5Store, ff5SyncStatus>>
    /\ UNCHANGED <<navStore, seriesCache, outlookCache, syncStatus, now, outlookFile,
                   statsmodels_ok, inflight>>

\* lifespan() step 4: scheduler.add_job twice, scheduler.start()
BootAddJobs ==
    /\ boot.pc = "add_jobs"
    /\ boot' = [BootStep(boot, "add_jobs", "serving") EXCEPT !.jobs = JobIds]
    /\ UNCHANGED <<navStore, ff5Store, regTable, seriesCache, outlookCache, syncStatus,
                   ff5SyncStatus, now, outlookFile, statsmodels_ok, last, inflight>>

\* the scheduler fires a registered job
ScheduledNavSync == "daily_nav_sync" \in boot.jobs /\ SyncNavCache
ScheduledFF5Sync == "daily_ff5_sync" \in boot.jobs /\ SyncFF5

\* the committed rows of a table, and their replacement
Committed(t) ==
    IF t = "portfolio_prices" THEN navStore
    ELSE IF t = "ff5_daily" THEN ff5Store ELSE regTable

SetCommitted(t, rows) ==
    /\ navStore' = IF t = "portfolio_prices" THEN rows ELSE navStore
    /\ ff5Store' = IF t = "ff5_daily" THEN rows ELSE ff5Store
    /\ regTable' = IF t = "ff5_regressions" THEN rows ELSE regTable

Returned(c) == [x \in DOMAIN inflight \ {c} |-> inflight[x]]
WriteResult(w, raised) ==
    [op |-> "write", raised |-> raised, table |-> w.table, stmts |-> w.stmts]

\* a connection starts a batch; SQLite lets one connection write at a time
TxnBegin ==
    \E c \in Writers \ DOMAIN inflight, job \in WriteJobs :
        /\ \A x \in DOMAIN inflight : inflight[x].op # "write"
        /\ inflight' = inflight @@ (c :> [op |-> "write", table |-> job.table,
                                          stmts |-> job.stmts, done |-> 0,
                                          view |-> Committed(job.table),
                                          base |-> Committed(job.table)])
        /\ UNCHANGED <<navStore, ff5Store, regTable, seriesCache, outlookCache,
                       syncStatus, ff5SyncStatus, now, outlookFile, statsmodels_ok,
                       last, boot>>

\* the batch of a second writer raises "database is locked"
TxnBusy ==
    \E c \in Writers \ DOMAIN inflight, job \in WriteJobs :
        /\ \E x \in DOMAIN inflight : inflight[x].op = "write"
        /\ last' = WriteResult(job, TRUE)
        /\ UNCHANGED <<navStore, ff5Store, regTable, seriesCache, outlookCache,
                       syncStatus, ff5SyncStatus, now, outlookFile, statsmodels_ok,
                       boot, inflight>>

\* the next statement of the batch: it raises and the connection rolls back,
\* or it changes the view of the transaction
TxnExec ==
    \E c \in DOMAIN inflight :
        LET w == inflight[c]
            stmt == w.stmts[w.done + 1]
        IN  /\ w.op = "write"
            /\ w.done < Len(w.stmts)
            /\ IF StmtFails(w.table, stmt)
               THEN /\ inflight' = Returned(c)
                    /\ last' = WriteResult(w, TRUE)
               ELSE /\ inflight' = [inflight EXCEPT ![c].done = @ + 1,
                                        ![c].view = ApplyStmt(w.table, @, stmt)]
                    /\ UNCHANGED last
            /\ UNCHANGED <<navStore, ff5Store, regTable, seriesCache, outlookCache,
                           syncStatus, ff5SyncStatus, now, outlookFile, statsmodels_ok,
                           boot>>

\* sqlite3 raises for a reason of its own (disk, lock): rollback
TxnAbort ==
    \E c \in DOMAIN inflight :
        /\ inflight[c].op = "write"
        /\ inflight' = Returned(c)
        /\ last' = WriteResult(inflight[c], TRUE)
        /\ UNCHANGED <<navStore, ff5Store, regTable, seriesCache, outlookCache,
                       syncStatus, ff5SyncStatus, now, outlookFile, statsmodels_ok,
                       boot>>

\* conn.commit()
TxnCommit ==
    \E c \in DOMAIN inflight :
        LET w == inflight[c]
        IN  /\ w.op = "write"
            /\ w.done = Len(w.stmts)
            /\ SetCommitted(w.table, w.view)
            /\ inflight' = Returned(c)
            /\ last' = WriteResult(w, FALSE)
            /\ UNCHANGED <<seriesCache, outlookCache, syncStatus, ff5SyncStatus, now,
                           outlookFile, statsmodels_ok, boot>>

\* a SELECT of a whole table on a connection of its own
TxnRead ==
    \E t \in TableNames :
        LET open == {c \in DOMAIN inflight :
                        inflight[c].op = "write" /\ inflight[c].table = t}
            seen == IF open = {} THEN Committed(t)
                    ELSE ReaderView(Committed(t), inflight[CHOOSE c \in open : TRUE].view)
        IN  /\ last' = [op |-> "read", table |-> t, seen |-> seen]
            /\ UNCHANGED <<navStore, ff5Store, regTable, seriesCache, outlookCache,
                           syncStatus, ff5SyncStatus, now, outlookFile, statsmodels_ok,
                           boot, inflight>>

\* GET /api/ff5/loadings
GetLoadings ==
    \E readFails \in BOOLEAN :
        LET r == ff5_loadings(regTable, readFails)
        IN  /\ last' = [op |-> "ff5_loadings", raised |-> r.raised, value |-> r.value]
            /\ UNCHANGED <<boot, inflight, navStore, ff5Store, regTable, seriesCache, outlookCache,
                           syncStatus, ff5SyncStatus, now, outlookFile, statsmodels_ok>>

\* GET /api/health
GetHealth ==
    \E readFails \in BOOLEAN :
        LET r == health(navStore, syncStatus, ff5SyncStatus, statsmodels_ok, seriesCache, outlookCache, now, readFails)
        IN  /\ last' = [op |-> "health", raised |-> r.raised, value |-> r.value]
            /\ UNCHANGED <<boot, inflight, navStore, ff5Store, regTable, seriesCache, outlookCache,
                           syncStatus, ff5SyncStatus, now, outlookFile, statsmodels_ok>>

\* _compute_nav_dataframe(START_DATE) on the table the download answered
ComputeNav ==
    /\ last.op = "download"
    /\ last' = [op |-> "_compute_nav_dataframe", raw |-> last.raw,
                out |-> _compute_nav_dataframe(last.raw, NoneRaw)]
    /\ UNCHANGED <<boot, inflight, navStore, ff5Store, regTable, seriesCache, outlookCache, syncStatus,
                   ff5SyncStatus, now, outlookFile, statsmodels_ok>>

\* _compute_nav_dataframe(START_DATE) in a market that answers the first
\* download with raw1 and would answer a second one with raw2
FetchNav ==
    \E raw1 \in LiveResponses, raw2 \in RetryResponses :
        /\ last' = [op |-> "fetch", raw1 |-> raw1, raw2 |-> raw2,
                    calls |-> Downloads(raw1, raw2),
                    out |-> _compute_nav_dataframe(raw1, raw2)]
        /\ UNCHANGED <<boot, inflight, navStore, ff5Store, regTable, seriesCache, outlookCache,
                       syncStatus, ff5SyncStatus, now, outlookFile, statsmodels_ok>>

\* portfolio_series() and sync_from_yfinance() in threads of their own, one
\* access to the shared state (_series_cache, portfolio.db) per step.  A
\* read in flight keeps its local `now` and `payload`, and with them the
\* contents portfolio_prices has had since the read began (versions) and
\* whether a refresh was in flight when it began (quiet = none was).
Readers == {"r1"}
Refresher == "sync"

SeriesResult(c, value, memo) ==
    [op |-> "portfolio_series", raised |-> FALSE, value |-> value, memo |-> memo,
     quiet |-> c.quiet, versions |-> c.versions]

\* now = time.time(); the freshness test; return _series_cache["payload"]
SeriesBegin ==
    \E c \in Readers \ DOMAIN inflight :
        LET call == [op |-> "portfolio_series", pc |-> "build", t |-> now,
                     payload |-> NonePayload,
                     quiet |-> Refresher \notin DOMAIN inflight,
                     versions |-> {navStore}]
        IN  /\ IF CacheFresh(seriesCache, now, SERIES_CACHE_SECONDS)
               THEN /\ last' = SeriesResult(call, seriesCache.payload, seriesCache.payload)
                    /\ UNCHANGED inflight
               ELSE /\ inflight' = inflight @@ (c :> call)
                    /\ UNCHANGED last
            /\ UNCHANGED <<boot, navStore, ff5Store, regTable, seriesCache, outlookCache,
                           syncStatus, ff5SyncStatus, now, outlookFile, statsmodels_ok>>

\* payload = _build_payload_from_db(); its exception leaves the handler
SeriesBuild ==
    \E c \in Readers \cap DOMAIN inflight :
        LET built == _build_payload_from_db(navStore, FALSE)
        IN  /\ inflight[c].pc = "build"
            /\ IF built.ok
               THEN /\ inflight' = [inflight EXCEPT ![c].pc = "update",
                                                    ![c].payload = built.payload]
                    /\ UNCHANGED last
               ELSE /\ inflight' = Returned(c)
                    /\ last' = [SeriesResult(inflight[c], NonePayload, seriesCache.payload)
                                   EXCEPT !.raised = TRUE]
            /\ UNCHANGED <<boot, navStore, ff5Store, regTable, seriesCache, outlookCache,
                           syncStatus, ff5SyncStatus, now, outlookFile, statsmodels_ok>>

\* _series_cache.update({"payload": payload, "ts": now}); return payload
SeriesUpdate ==
    \E c \in Readers \cap DOMAIN inflight :
        /\ inflight[c].pc = "update"
        /\ seriesCache' = [ts |-> inflight[c].t, payload |-> inflight[c].payload]
        /\ inflight' = Returned(c)
        /\ last' = SeriesResult(inflight[c], inflight[c].payload, seriesCache.payload)
        /\ UNCHANGED <<boot, navStore, ff5Store, regTable, outlookCache, syncStatus,
                       ff5SyncStatus, now, outlookFile, statsmodels_ok>>

\* sync_from_yfinance() up to the commit of _db_upsert(rows); when the
\* market gives nothing, the whole call
RefreshCommit ==
    \E nav \in BootNavs :
        LET r == sync_from_yfinance(navStore, seriesCache, syncStatus, nav, FALSE, FALSE, now)
        IN  /\ Refresher \notin DOMAIN inflight
            /\ navStore' = r.store
            /\ IF r.status.ok = "True"
               THEN /\ inflight' =
                           [c \in DOMAIN inflight |->
                               [inflight[c] EXCEPT !.versions = @ \cup {r.store}]]
                           @@ (Refresher :> [op |-> "sync_from_yfinance",
                                             status |-> r.status, fetches |-> r.fetches])
                    /\ UNCHANGED <<syncStatus, last>>
               ELSE /\ syncStatus' = r.status
                    /\ last' = [op |-> "sync_from_yfinance", raised |-> r.raised,
                                value |-> r.status, fetches |-> r.fetches]
                    /\ UNCHANGED inflight
            /\ UNCHANGED <<boot, ff5Store, regTable, seriesCache, outlookCache,
                           ff5SyncStatus, now, outlookFile, statsmodels_ok>>

\* _series_cache["ts"] = 0.0, then the status record
RefreshFinish ==
    /\ Refresher \in DOMAIN inflight
    /\ seriesCache' = Invalidate(seriesCache)
    /\ syncStatus' = [inflight[Refresher].status EXCEPT !.ts = now]
    /\ last' = [op |-> "sync_from_yfinance", raised |-> FALSE,
                value |-> syncStatus', fetches |-> inflight[Refresher].fetches]
    /\ inflight' = Returned(Refresher)
    /\ UNCHANGED <<boot, navStore, ff5Store, regTable, outlookCache, ff5SyncStatus,
                   now, outlookFile, statsmodels_ok>>

\* Two refreshes in threads of their own: the scheduler's job and
\* manual_sync, each run once.  last keeps the batches committed so far, in
\* the order of their commits, and the calls that have returned.
Refreshers == {"daily_nav_sync", "manual_sync"}
NoRefresh == [op |-> "none", commits |-> <<>>, finished |-> {}]

\* sync_from_yfinance() up to the return of _db_upsert(rows), or, when the
\* market gives nothing, up to the status built in the except block
OverlapCommit ==
    \E c \in Refreshers \ (DOMAIN inflight \cup last.finished), nav \in BootNavs :
        LET r == sync_from_yfinance(navStore, seriesCache, syncStatus, nav, FALSE, FALSE, now)
            done == r.status.ok = "True"
        IN  /\ navStore' = r.store
            /\ inflight' = inflight @@
                   (c :> [op |-> "sync_from_yfinance",
                          pc |-> IF done THEN "invalidate" ELSE "assign",
                          status |-> r.status])
            /\ last' = IF done
                       THEN [last EXCEPT !.op = "commit",
                                         !.commits = Append(@, [by |-> c, status |-> r.status])]
                       ELSE [last EXCEPT !.op = "failed"]
            /\ UNCHANGED <<boot, ff5Store, regTable, seriesCache, outlookCache, syncStatus,
                           ff5SyncStatus, now, outlookFile, statsmodels_ok>>

\* _series_cache["ts"] = 0.0, then the status record is built
OverlapInvalidate ==
    \E c \in Refreshers \cap DOMAIN inflight :
        /\ inflight[c].pc = "invalidate"
        /\ seriesCache' = Invalidate(seriesCache)
        /\ inflight' = [inflight EXCEPT ![c].pc = "assign"]
        /\ last' = [last EXCEPT !.op = "invalidate"]
        /\ UNCHANGED <<boot, navStore, ff5Store, regTable, outlookCache, syncStatus,
                       ff5SyncStatus, now, outlookFile, statsmodels_ok>>

\* _sync_status = status; return status.  The scheduler's job is over;
\* manual_sync goes on to its regression run.
OverlapAssign ==
    \E c \in Refreshers \cap DOMAIN inflight :
        /\ inflight[c].pc = "assign"
        /\ syncStatus' = inflight[c].status
        /\ IF c = "manual_sync"
           THEN /\ inflight' = [inflight EXCEPT ![c].pc = "regress"]
                /\ last' = [last EXCEPT !.op = "assign"]
           ELSE /\ inflight' = Returned(c)
                /\ last' = [last EXCEPT !.op = "assign", !.finished = @ \cup {c}]
        /\ UNCHANGED <<boot, navStore, ff5Store, regTable, seriesCache, outlookCache,
                       ff5SyncStatus, now, outlookFile, statsmodels_ok>>

\* manual_sync: reg = _run_ff5_regressions(); return
OverlapRegress ==
    \E c \in Refreshers \cap DOMAIN inflight, env \in ServiceRegEnvs :
        LET r == _run_ff5_regressions(regTable, ff5Store, statsmodels_ok, LookbackNav(env.days), env.ff5ReadFails, env.fitFails, env.writeFails, now)
        IN  /\ inflight[c].pc = "regress"
            /\ regTable' = r.table
            /\ inflight' = Returned(c)
            /\ last' = [last EXCEPT !.op = "regress", !.finished = @ \cup {c}]
            /\ UNCHANGED <<boot, navStore, ff5Store, seriesCache, outlookCache, syncStatus,
                           ff5SyncStatus, now, outlookFile, statsmodels_ok>>

\* _max_drawdown(eq) on one curve
MaxDrawdown ==
    \E equity \in Curves :
        /\ last' = [op |-> "_max_drawdown", equity |-> equity,
                    out |-> _max_drawdown(equity)]
        /\ UNCHANGED <<boot, inflight, navStore, ff5Store, regTable, seriesCache, outlookCache,
                       syncStatus, ff5SyncStatus, now, outlookFile, statsmodels_ok>>

\* _db_upsert(rows)
DbUpsert ==
    \E rows \in Batches :
        LET r == _db_upsert(navStore, rows)
        IN  /\ navStore' = r.store
            /\ last' = [op |-> "_db_upsert", rows |-> rows, ok |-> r.ok,
                        fromEmpty |-> navStore = {}]
            /\ UNCHANGED <<boot, inflight, ff5Store, regTable, seriesCache, outlookCache, syncStatus,
                           ff5SyncStatus, now, outlookFile, statsmodels_ok>>

\* _db_read_pivot(); after is the call the read follows
DbReadPivot ==
    LET r == _db_read_pivot(navStore)
    IN  /\ last' = [op |-> "_db_read_pivot", ok |-> r.ok, frame |-> r.frame,
                    after |-> IF last.op = "_db_read_pivot" THEN last.after ELSE last]
        /\ UNCHANGED <<boot, inflight, navStore, ff5Store, regTable, seriesCache, outlookCache,
                       syncStatus, ff5SyncStatus, now, outlookFile, statsmodels_ok>>

\* GET /api/sync; sqlite3 works, or raises on every statement
ManualSync ==
    \E nav \in BootNavs, fault \in {<<FALSE, FALSE>>, <<TRUE, TRUE>>}, env \in ServiceRegEnvs :
        LET r == manual_sync(navStore, seriesCache, syncStatus, regTable, ff5Store, statsmodels_ok, nav, fault, LookbackNav(env.days), env, now)
        IN  /\ navStore' = r.store
            /\ seriesCache' = r.cache
            /\ syncStatus' = r.status
            /\ regTable' = r.table
            /\ last' = [op |-> "manual_sync", raised |-> r.raised, value |-> r.value,
                        fetches |-> r.fetches]
            /\ UNCHANGED <<boot, inflight, ff5Store, outlookCache, ff5SyncStatus, now,
                           outlookFile, statsmodels_ok>>

\* the other calls, in a small market
ServiceSyncNav == SyncNav(BootNavs, {<<FALSE, FALSE>>})
ServiceRunRegressions == RunRegressionsIn(ServiceRegEnvs)
ServiceSyncFF5 == SyncFF5In(ServiceFF5Envs)

-----------------------------------------------------------------------------
(* The service specifications *)

\* the response cache in front of the store and of outlook.json
InitCache == InitWith({TRUE}, {{}}, OutlookFiles, Idle)
NextCache == Tick \/ SetOutlookFile \/ GetOutlook \/ GetPortfolioSeries \/ SyncNavCache
SpecCache == InitCache /\ [][NextCache]_vars

\* NAV refreshes against a market that answers anything
InitSync == InitWith({TRUE}, {{}}, {"missing"}, Idle)
NextSync == SyncNavLive
SpecSync == InitSync /\ [][NextSync]_vars

\* factor refreshes and regression runs
InitReg == InitWith(BOOLEAN, {{}, LegacyRegTable}, {"missing"}, Idle)
NextReg == SyncFF5 \/ RunRegressions
SpecReg == InitReg /\ [][NextReg]_vars

\* the startup, over a database file that may hold factor rows, then the
\* scheduler
InitBoot ==
    /\ navStore = {}
    /\ ff5Store \in {{}, Range(FF5Rows(1, MIN_OBS, 0))}
    /\ regTable = {}
    /\ seriesCache = [ts |-> 0, payload |-> NonePayload]
    /\ outlookCache = [ts |-> 0, payload |-> NonePayload, last_error |-> None]
    /\ syncStatus = InitialSyncStatus
    /\ ff5SyncStatus = InitialFF5SyncStatus
    /\ now = Epoch
    /\ outlookFile = "missing"
    /\ statsmodels_ok = TRUE
    /\ last = Idle
    /\ boot = Booting
    /\ inflight = NoCalls
NextBoot ==
    \/ BootInitDb \/ BootInitFF5Tables \/ BootSyncNav \/ BootFactors \/ BootAddJobs
    \/ ScheduledNavSync \/ ScheduledFF5Sync
SpecBoot == InitBoot /\ [][NextBoot]_vars

\* every operation of the service
InitService == InitWith({TRUE}, {{}}, {"docA"}, Idle)
NextService ==
    \/ ServiceSyncNav \/ ServiceSyncFF5 \/ ServiceRunRegressions \/ ManualSync
    \/ GetPortfolioSeries \/ GetOutlook \/ GetLoadings \/ GetHealth
SpecService == InitService /\ [][NextService]_vars

\* writers and readers on connections of their own
InitTxn == InitWith({TRUE}, {{}, LegacyRegTable}, {"missing"}, Idle)
NextTxn == TxnBegin \/ TxnBusy \/ TxnExec \/ TxnAbort \/ TxnCommit \/ TxnRead
SpecTxn == InitTxn /\ [][NextTxn]_vars

\* the read surface over tables that may hold rows of an earlier catalog
InitRead ==
    /\ navStore \in {{}, LegacyNavStore}
    /\ ff5Store = {}
    /\ regTable \in {{}, LegacyRegTable}
    /\ seriesCache = [ts |-> 0, payload |-> NonePayload]
    /\ outlookCache = [ts |-> 0, payload |-> NonePayload, last_error |-> None]
    /\ syncStatus = InitialSyncStatus
    /\ ff5SyncStatus = InitialFF5SyncStatus
    /\ now = Epoch
    /\ outlookFile = "missing"
    /\ statsmodels_ok = TRUE
    /\ last = Idle
    /\ boot = Served
    /\ inflight = NoCalls
NextRead == Tick \/ GetPortfolioSeries \/ GetLoadings \/ GetHealth \/ SyncNavCache
SpecRead == InitRead /\ [][NextRead]_vars

\* one NAV computation on each price table
InitNav ==
    \E raw \in PriceTables :
        InitWith({TRUE}, {{}}, {"missing"}, [op |-> "download", raw |-> raw])
NextNav == ComputeNav
SpecNav == InitNav /\ [][NextNav]_vars

\* NAV computations in a market that may fail the first download, the
\* second, or both
InitFetch == InitWith({TRUE}, {{}}, {"missing"}, Idle)
NextFetch == FetchNav
SpecFetch == InitFetch /\ [][NextFetch]_vars

\* reads of the series racing with refreshes
InitRace == InitWith({TRUE}, {{}}, {"missing"}, Idle)
NextRace ==
    Tick \/ SeriesBegin \/ SeriesBuild \/ SeriesUpdate \/ RefreshCommit \/ RefreshFinish
SpecRace == InitRace /\ [][NextRace]_vars

\* a scheduled and a manual refresh, overlapping or not
InitOverlap == InitWith({TRUE}, {{}}, {"missing"}, NoRefresh)
NextOverlap == Tick \/ OverlapCommit \/ OverlapInvalidate \/ OverlapAssign \/ OverlapRegress
SpecOverlap == InitOverlap /\ [][NextOverlap]_vars

\* reads of the series between refreshes that may fail: the market gives
\* nothing, or sqlite3 raises
InitRefresh == InitWith({TRUE}, {{}}, {"missing"}, Idle)
NextRefresh == Tick \/ GetPortfolioSeries \/ SyncNavFaulty
SpecRefresh == InitRefresh /\ [][NextRefresh]_vars

\* the drawdown of each curve
InitStats == InitWith({TRUE}, {{}}, {"missing"}, Idle)
NextStats == MaxDrawdown
SpecStats == InitStats /\ [][NextStats]_vars

\* the NAV table under upserts and pivoted reads
InitStore == InitWith({TRUE}, {{}}, {"missing"}, Idle)
NextStore == DbUpsert \/ DbReadPivot
SpecStore == InitStore /\ [][NextStore]_vars

-----------------------------------------------------------------------------
(* Properties *)

\* C1: on both cached read endpoints, a read whose recomputation fails while
\* a payload is memoized returns that payload and does not raise.
C1_StaleOnFailure ==
    (last.op \in {"portfolio_series", "outlook"} /\ last.failed
        /\ last.memo # NonePayload)
    => (~last.raised /\ last.value = last.memo)

\* C2: a read made less than the TTL after the memo was written returns the
\* memoized payload, reads neither the store nor the file, and leaves the
\* memo as it is.  (A memo is a payload that is not None: the JSON document
\* null is never kept.)
C2_FreshReadServesMemo ==
    [][/\ (GetPortfolioSeries /\ seriesCache.payload # NonePayload
              /\ now - seriesCache.ts < SERIES_CACHE_SECONDS)
          => (/\ ~last'.raised
              /\ last'.value = seriesCache.payload
              /\ last'.reads = 0
              /\ seriesCache' = seriesCache)
       /\ (GetOutlook /\ outlookCache.payload # NonePayload
              /\ now - outlookCache.ts < OUTLOOK_CACHE_SECONDS)
          => (/\ ~last'.raised
              /\ last'.value = outlookCache.payload
              /\ last'.reads = 0
              /\ outlookCache' = outlookCache)]_vars

\* a read, 59 s after the memo was written, served from the memo
C2_Witness ==
    /\ last.op = "portfolio_series"
    /\ last.reads = 0
    /\ last.value = last.memo
    /\ now - seriesCache.ts = 59

\* C3: the portfolio-series read that follows a successful NAV refresh reads
\* the store: it raises, or it returns the payload built from the store and
\* memoizes it with the time of the read.
C3_ReadAfterRefreshRecomputes ==
    [][(GetPortfolioSeries /\ last.op = "sync_from_yfinance" /\ ~last.raised
            /\ last.value.ok = "True")
       => /\ last'.reads = 1
          /\ \/ last'.raised
             \/ /\ last'.value = _build_payload_from_db(navStore, FALSE).payload
                /\ seriesCache' = [ts |-> now, payload |-> last'.value]]_vars

\* a payload was memoized and, before any time passed, a read replaced it
C3_Witness ==
    /\ last.op = "portfolio_series"
    /\ last.reads = 1
    /\ ~last.raised
    /\ last.memo # NonePayload
    /\ seriesCache.ts = now
    /\ now = Epoch

\* C4: sync_from_yfinance and sync_ff5 never raise; a failed refresh records
\* ok = False with an error text.
C4_RefreshNeverRaises ==
    last.op \in {"sync_from_yfinance", "sync_ff5"}
    => /\ ~last.raised
       /\ last.value.ok \in {"True", "False"}
       /\ last.value.ok = "False" => last.value.error # None

\* C5: the NAV of every stored portfolio at its earliest stored date is the
\* initial capital, 100.0.
C5_EarliestNavIsInitialCapital ==
    \A p \in {r[2] : r \in navStore} :
        LET mine == {r \in navStore : r[2] = p}
            first == MinDate({r[1] : r \in mine})
        IN  \A r \in mine : r[1] = first => r[3] = 100 * Million

\* refreshes of different date sets have written the store, and a NAV has moved
C5_Witness ==
    /\ last.op = "sync_from_yfinance"
    /\ last.value.ok = "True"
    /\ last.value.rows_upserted < Cardinality(navStore)
    /\ \E r \in navStore : r[3] # 100 * Million

\* C6: in a computed curve NAV(t) = NAV(t-1) * (1 + sum of declared weight *
\* return(t)) over the non-CASH holdings whose yahoo ticker is a column of
\* the return table; nothing else contributes, no weight is rescaled.
C6_NavRecurrence ==
    (last.op = "_compute_nav_dataframe" /\ last.out.ok)
    => LET raw == last.raw
           nav == last.out
           cols == KeptColumns(raw)
           Counted(p) == {t \in DOMAIN PORTFOLIOS[p] :
                             UpperStr(t) # CASH /\ yahoo_ticker(t) \in cols}
           Growth(p, i) ==
               RSum(Counted(p),
                    [t \in Counted(p) |->
                        RMul(Rat(PORTFOLIOS[p][t], WeightDen),
                             Returns(raw.cols[yahoo_ticker(t)].close, nav.index, i))])
       IN  \A p \in PortfolioNames :
               /\ Len(nav.cum[p]) = Len(nav.index)
               /\ \A i \in 2..Len(nav.index) :
                      nav.cum[p][i] = RMul(nav.cum[p][i - 1], RAdd(ROne, Growth(p, i)))

\* BRK-B is not a column, GLD is, and the NAV of their portfolio has moved
C6_Witness ==
    /\ last.op = "_compute_nav_dataframe"
    /\ last.out.ok
    /\ yahoo_ticker(BRK_B) \notin KeptColumns(last.raw)
    /\ GLD \in KeptColumns(last.raw)
    /\ last.out.cum["Meta AI Thinking"][2] # INITIAL_CAPITAL

\* C7: after _db_upsert(rows), _db_upsert(rows) again leaves the table as it
\* is, and the table holds at most one row per (date, portfolio_name).
C7_UpsertIdempotent ==
    last.op = "_db_upsert"
    => /\ _db_upsert(navStore, last.rows).store = navStore
       /\ \A r1, r2 \in navStore : RowKey(r1) = RowKey(r2) => r1 = r2

\* a batch that holds one key twice, with two NAVs, into a table that held rows
C7_Witness ==
    /\ last.op = "_db_upsert"
    /\ last.ok
    /\ ~last.fromEmpty
    /\ Len(last.rows) = 2
    /\ RowKey(last.rows[1]) = RowKey(last.rows[2])
    /\ last.rows[1] \notin navStore
    /\ last.rows[2] \in navStore

\* C8: the pivoted read that follows the upsert of a batch into the empty
\* table shows exactly the batch's rows dated on or after START_DATE (for a
\* key written twice, the later row), dates ascending, each once; with no
\* such row it is the empty table, and it does not raise.
C8_RoundTrip ==
    (last.op = "_db_read_pivot" /\ last.after.op = "_db_upsert" /\ last.after.ok
        /\ last.after.fromEmpty)
    => LET rows == last.after.rows
           kept == {rows[j] : j \in {i \in DOMAIN rows :
                       \A k \in (i + 1)..Len(rows) : RowKey(rows[k]) # RowKey(rows[i])}}
           shown == {r \in kept : ~DateLT(r[1], START_DATE)}
           fr == last.frame
           cells == {<<k[1], k[2], fr.cell[k]>> :
                        k \in {x \in DOMAIN fr.cell : fr.cell[x] # NaN}}
       IN  /\ last.ok
           /\ fr.empty <=> shown = {}
           /\ cells = shown
           /\ Range(fr.index) = {r[1] : r \in shown}
           /\ \A i \in 1..(Len(fr.index) - 1) : DateLT(fr.index[i], fr.index[i + 1])

\* a batch with a row before START_DATE and a row on it, then the read
C8_Witness ==
    /\ last.op = "_db_read_pivot"
    /\ last.after.op = "_db_upsert"
    /\ last.after.ok
    /\ last.after.fromEmpty
    /\ ~last.frame.empty
    /\ \E r \in navStore : DateLT(r[1], START_DATE)

\* C9: with a NAV history and factor rows that share fewer than MIN_OBS
\* dates, _run_ff5_regressions returns ok = False with the count and the two
\* date ranges, and does not raise.
C9_InsufficientOverlapReported ==
    LET nav == LookbackNav(last.env.days)
        common == (Range(nav.index) \ {nav.index[1]}) \cap {r[1] : r \in ff5Store}
    IN  (/\ last.op = "_run_ff5_regressions"
         /\ statsmodels_ok
         /\ ~last.env.ff5ReadFails
         /\ ff5Store # {}
         /\ nav.ok
         /\ nav.index # <<>>
         /\ Cardinality(common) < MIN_OBS)
        => /\ ~last.raised
           /\ ~last.value.ok
           /\ last.value.n_common = Cardinality(common)
           /\ Len(last.value.detail) = 4

\* C10: a regression run that returns a failure leaves ff5_regressions as it
\* was, whether called alone or inside sync_ff5.
C10_FailedRunKeepsTable ==
    [][/\ (last'.op = "_run_ff5_regressions" /\ ~last'.raised /\ ~last'.value.ok)
          => regTable' = regTable
       /\ (last'.op = "sync_ff5" /\ last'.value.ok = "True"
              /\ last'.value.reg_error # None)
          => regTable' = regTable]_vars

\* a run short of common dates, with rows in ff5_regressions
C10_Witness ==
    /\ last.op = "_run_ff5_regressions"
    /\ ~last.raised
    /\ ~last.value.ok
    /\ last.value.n_common > 0
    /\ regTable # {}

\* C11: after a regression run that returns ok = True, ff5_regressions holds
\* no row whose portfolio_name is not a key of PORTFOLIOS, also when every
\* portfolio was skipped or failed to fit.
C11_NoOrphanAfterOkRun ==
    (last.op = "_run_ff5_regressions" /\ ~last.raised /\ last.value.ok)
    => \A r \in regTable : r[1] \in PortfolioNames

\* C12: every portfolio name in the series and stats of a portfolio-series
\* payload, and every key of the factor-loadings response, is a key of
\* PORTFOLIOS.
C12_ReadsServeCatalogOnly ==
    /\ (last.op = "portfolio_series" /\ ~last.raised)
       => /\ DOMAIN last.value.series \subseteq PortfolioNames
          /\ DOMAIN last.value.stats \subseteq PortfolioNames
    /\ (last.op = "ff5_loadings" /\ ~last.raised)
       => DOMAIN last.value \subseteq PortfolioNames

\* C13: the startup makes its steps in the order init_db, init_ff5_tables,
\* sync_from_yfinance (once), then sync_ff5 if ff5_daily held no row at that
\* point and _run_ff5_regressions (no download) otherwise, then add_jobs;
\* no job is registered before all of them are made.
C13_StartupOrder ==
    /\ [](LET n == Len(boot.steps)
              order == <<"init_db", "init_ff5_tables", "sync_from_yfinance">>
          IN  /\ n <= 5
              /\ \A i \in 1..n :
                    /\ i <= 3 => boot.steps[i] = order[i]
                    /\ i = 4 => boot.steps[i] \in {"sync_ff5", "_run_ff5_regressions"}
                    /\ i = 5 => boot.steps[i] = "add_jobs"
              /\ boot.jobs # {} => n = 5)
    /\ [][(Len(boot.steps) = 3 /\ Len(boot'.steps) = 4)
          => /\ boot'.steps[4] = "sync_ff5" <=> ff5Store = {}
             /\ boot'.steps[4] = "_run_ff5_regressions" => ff5Store' = ff5Store]_vars

\* a start over a file with factor rows: the regressions ran, the jobs are in
C13_Witness ==
    /\ boot.pc = "serving"
    /\ boot.steps[4] = "_run_ff5_regressions"
    /\ boot.jobs = JobIds
    /\ ff5Store # {}

\* C14: a read made while a batch is being written shows the table as it
\* was when the batch began; a batch that ends leaves the table with all of
\* its statements applied if it committed and as it was if it raised.
C14_BatchesAtomic ==
    [][/\ \A c \in DOMAIN inflight :
            (TxnRead /\ last'.op = "read" /\ inflight[c].op = "write"
                /\ inflight[c].table = last'.table)
            => last'.seen = inflight[c].base
       /\ \A c \in DOMAIN inflight \ DOMAIN inflight' :
            LET w == inflight[c]
                after == IF w.table = "portfolio_prices" THEN navStore'
                         ELSE IF w.table = "ff5_daily" THEN ff5Store' ELSE regTable'
                rows == [i \in DOMAIN w.stmts |-> w.stmts[i][2]]
                all == IF w.table = "portfolio_prices" THEN _db_upsert(w.base, rows).store
                       ELSE IF w.table = "ff5_daily" THEN _upsert_ff5(w.base, rows)
                       ELSE RegCommit(w.base, SubSeq(rows, 1, Len(rows) - 1))
            IN  w.op = "write"
                => /\ last'.op = "write"
                   /\ last'.raised => after = w.base
                   /\ ~last'.raised => after = all]_vars

\* a read of portfolio_prices while a batch has written one of its two rows
C14_Witness ==
    /\ last.op = "read"
    /\ last.table = "portfolio_prices"
    /\ \E c \in DOMAIN inflight :
          /\ inflight[c].op = "write"
          /\ inflight[c].table = "portfolio_prices"
          /\ inflight[c].done = 1
          /\ inflight[c].view # last.seen

\* C15: no step removes a (date, portfolio_name) key from portfolio_prices,
\* and a step that changes the table is a NAV refresh (sync_from_yfinance,
\* alone or inside GET /api/sync).
C15_NavStoreOnlyGrows ==
    [][/\ {RowKey(r) : r \in navStore} \subseteq {RowKey(r) : r \in navStore'}
       /\ navStore' # navStore
          => /\ last'.op \in {"sync_from_yfinance", "manual_sync"}
             /\ syncStatus'.ok = "True"]_vars

\* a refresh of one date after a refresh of two: the four keys are there
C15_Witness ==
    /\ last.op = "manual_sync"
    /\ ~last.raised
    /\ syncStatus.ok = "True"
    /\ syncStatus.rows_upserted = 2
    /\ Cardinality(navStore) = 4
    /\ ff5Store # {}

\* C16: one NAV computation downloads once or twice, first with threads on;
\* it downloads a second time, with threads off, exactly when the first
\* answer was None or empty; when the second answer is empty too it raises
\* "yfinance returned no data" and has downloaded twice.
C16_AtMostTwoFetches ==
    last.op = "fetch"
    => /\ Len(last.calls) \in {1, 2}
       /\ last.out.fetches = Len(last.calls)
       /\ last.calls[1] = [threads |-> TRUE, raw |-> last.raw1]
       /\ Len(last.calls) = 2 <=> RawEmpty(last.raw1)
       /\ Len(last.calls) = 2 => last.calls[2] = [threads |-> FALSE, raw |-> last.raw2]
       /\ (RawEmpty(last.raw1) /\ RawEmpty(last.raw2))
              => /\ ~last.out.ok
                 /\ last.out.error = "yfinance returned no data"

\* an empty frame first, no answer to the retry
C16_Witness ==
    /\ last.op = "fetch"
    /\ last.raw1 = EmptyRaw
    /\ last.raw2 = NoneRaw
    /\ last.out.fetches = 2
    /\ ~last.out.ok

C18_RefreshOkDespiteRegressionFailure ==
    (/\ last.op = "sync_ff5" /\ last.dl.ok /\ ~last.upsertFails
     /\ last.reg.called /\ ~last.reg.raised /\ ~last.reg.ok)
    => /\ ff5SyncStatus = last.value
       /\ ff5SyncStatus.ok = "True"
       /\ ff5SyncStatus.error = None
       /\ ff5SyncStatus.reg_error = last.reg.error
       /\ ff5SyncStatus.reg_error # None
       /\ ff5SyncStatus.reg_portfolios = 0
       /\ ff5SyncStatus.ff5_rows = Len(last.dl.rows)
       /\ Range(last.dl.rows) \subseteq ff5Store

\* factor rows downloaded and stored, fewer than MIN_OBS common dates
C18_Witness ==
    /\ last.op = "sync_ff5"
    /\ last.dl.ok
    /\ last.dl.rows # <<>>
    /\ last.reg.called
    /\ ~last.reg.ok
    /\ Range(last.dl.rows) \subseteq ff5Store
    /\ ff5SyncStatus.ok = "True"
    /\ ff5SyncStatus.reg_error = "Only n_common overlapping trading days"
    /\ ff5SyncStatus.reg_portfolios = 0

\* C19: on a curve of positive values the max drawdown is a number not above
\* 0; it is 0 when the curve never falls; it is -1/2 on <<100, 50, 150>>.
C19_MaxDrawdown ==
    (last.op = "_max_drawdown" /\ \A i \in DOMAIN last.equity : last.equity[i] > 0)
    => /\ last.out # RNaN
       /\ RLE(last.out, RZero)
       /\ (\A i \in 2..Len(last.equity) : last.equity[i - 1] <= last.equity[i])
             => last.out = RZero
       /\ last.equity = <<100, 50, 150>> => last.out = <<-1, 2>>

\* the curve <<100, 50, 150>> has been measured
C19_Witness ==
    /\ last.op = "_max_drawdown"
    /\ last.equity = <<100, 50, 150>>
    /\ last.out = <<-1, 2>>

\* C20: a read of the series that began with no refresh in flight returns a
\* payload built from contents portfolio_prices has had since the read
\* began, never from earlier ones; and with no call in flight a memoized
\* payload that is fresh is the payload of the present portfolio_prices.
C20_NoStaleReadAfterRefresh ==
    /\ (last.op = "portfolio_series" /\ ~last.raised /\ last.quiet)
       => \E v \in last.versions :
              last.value = _build_payload_from_db(v, FALSE).payload
    /\ (inflight = NoCalls /\ CacheFresh(seriesCache, now, SERIES_CACHE_SECONDS))
       => seriesCache.payload = _build_payload_from_db(navStore, FALSE).payload

\* C21: when the scheduled and the manual refresh have both committed a
\* batch and both returned, _sync_status holds the ok, rows_upserted and
\* latest_date of the one whose batch was committed last.
C21_StatusOfLastCommit ==
    (last.op # "none" /\ last.finished = Refreshers /\ Len(last.commits) = 2)
    => LET s == last.commits[2].status
       IN  /\ syncStatus.ok = "True"
           /\ syncStatus.rows_upserted = s.rows_upserted
           /\ syncStatus.latest_date = s.latest_date

\* C22: a call of sync_from_yfinance that returns ok = False leaves
\* portfolio_prices and _series_cache (payload and ts) as they were; its
\* status, which is what _sync_status then holds, has rows_upserted = 0 and
\* as latest_date the greatest date of portfolio_prices, none when the table
\* is empty.
C22_FailedRefreshChangesNothing ==
    [][(last'.op = "sync_from_yfinance" /\ ~last'.raised /\ last'.value.ok = "False")
       => /\ navStore' = navStore
          /\ seriesCache' = seriesCache
          /\ syncStatus' = last'.value
          /\ syncStatus'.rows_upserted = 0
          /\ syncStatus'.error # None
          /\ IF navStore = {}
             THEN syncStatus'.latest_date = NoDate
             ELSE /\ \E r \in navStore : r[1] = syncStatus'.latest_date
                  /\ \A r \in navStore : DateLE(r[1], syncStatus'.latest_date)]_vars

\* rows are stored, a payload is memoized, and the refresh has failed
C22_Witness ==
    /\ last.op = "sync_from_yfinance"
    /\ last.value.ok = "False"
    /\ last.value.latest_date = <<2026, 2, 3>>
    /\ Cardinality(navStore) = 4
    /\ seriesCache.payload # NonePayload
    /\ seriesCache.ts = now

=============================================================================
